---- MODULE Spec2Model ----
(***************************************************************************)
(* Tallinn Vesi water integration: the reading-to-delta computation of the *)
(* coordinator, the API client's request and parsing path, the             *)
(* coordinator's fetch cycle, the setup, unload and reload of a config     *)
(* entry, and the config flow with the entries it creates.                 *)
(*                                                                         *)
(* Time is counted in whole hours since an epoch that is a UTC midnight.   *)
(* Cumulative totals are finite numbers in a fixed-point unit (integers);  *)
(* the floating-point special values are not modelled.                     *)
(* An Optional value is a sequence of length 0 (None) or 1 (the value).    *)
(***************************************************************************)
EXTENDS Integers, Sequences, FiniteSets, TLC

VARIABLES
    tz,                 \* hass time zone (dt_util.DEFAULT_TIME_ZONE) as a UTC offset in hours
    readings,           \* argument of _calculate_daily_consumption: list of SmartMeterReading
    latest_timestamp,   \* argument of _calculate_daily_consumption: Optional timestamp
    daily_consumption,  \* what _calculate_daily_consumption returned
    event,              \* what the HTTP transport delivers to the request in flight
    request_out,        \* how _request ended: the payload returned or the exception raised
    api_out,            \* how async_get_readings ended
    fetching,           \* number of coordinator refreshes awaiting their readings
    data,               \* coordinator.data: the published ConsumptionData, or None
    cycle_out,          \* how the last _async_update_data ended
    pc,                 \* position of the harness / of the running call
    from_datetime,      \* argument of async_get_readings: Optional window start
    params,             \* query parameters async_get_readings sent
    reauth_flow,        \* the re-authentication flow the host started for the entry
    hass_data,          \* hass.data[DOMAIN].get(entry.entry_id): Optional coordinator
    forwarded,          \* the platforms of the entry have been forwarded
    listeners,          \* update listeners of this integration on the entry
    setup_out,          \* how the last async_setup_entry ended
    unload_ok,          \* what the last async_unload_entry returned, if it ran
    flow_step,          \* config flow: the step whose form is shown
    flow_api_key,       \* config flow: self._api_key
    flow_supply_points, \* config flow: self._supply_points
    overview_out,       \* config flow: how async_get_overview_readings ended
    supply_out,         \* config flow: how async_get_supply_points ended
    flow_result,        \* config flow: the FlowResult of the last step
    entries             \* the config entries of this integration the host holds

dailyVars == <<readings, latest_timestamp, daily_consumption>>

apiVars == <<event, request_out, api_out, from_datetime, params>>

coordVars == <<fetching, data, cycle_out, reauth_flow>>

setupVars == <<hass_data, forwarded, listeners, setup_out, unload_ok>>

flowVars ==
    <<flow_step, flow_api_key, flow_supply_points, overview_out, supply_out, flow_result,
      entries>>

vars ==
    <<tz, readings, latest_timestamp, daily_consumption, event, request_out, api_out,
      fetching, data, cycle_out, pc, from_datetime, params, reauth_flow,
      hass_data, forwarded, listeners, setup_out, unload_ok,
      flow_step, flow_api_key, flow_supply_points, overview_out, supply_out, flow_result,
      entries>>

----------------------------------------------------------------------------
(* Bounds and input domains *)

MaxLen == 3

\* 20:00 of day 0, then 00:00, 08:00 and 20:00 of day 1 (UTC)
Times == {20, 24, 32, 44}

Totals == {0, 1}

\* UTC and Europe/Tallinn standard time
TimeZones == {0, 2}

HoursPerDay == 24

\* entries of one readings payload
MaxItems == 2

\* entries of one readings payload in a coordinator cycle
MaxCycleItems == 2

\* refreshes of one coordinator that may be awaiting their readings at once
MaxInFlight == 2

\* readings of one fetch result handed to the rest of a coordinator cycle
MaxSnapLen == 2

\* entries of the overview payload and of the supply points payload in a config flow
MaxFlowItems == 2

\* update listeners on the entry up to which settings changes are followed
MaxListeners == 2

\* config entries up to which further config flows are started
MaxEntries == 2

\* HTTP response statuses
Statuses == {200, 302, 400, 401, 403, 404, 500}

----------------------------------------------------------------------------
(* Optional values *)

None == <<>>

Some(x) == <<x>>

Optional(S) == {None} \cup {Some(x) : x \in S}

----------------------------------------------------------------------------
(* coordinator.py and the data classes of api.py *)

SmartMeterReading ==
    [reading : Optional(Totals), reading_end : Optional(Totals), reading_date : Times]

\* "reading.reading_end or reading.reading": an end value of zero counts as
\* absent (mutant of pick_total_value)
pick_total_value_truthy(reading) ==
    IF reading.reading_end # None /\ reading.reading_end[1] # 0
    THEN reading.reading_end ELSE reading.reading

pick_total_value(reading) ==
    IF reading.reading_end # None THEN reading.reading_end ELSE reading.reading

\* dt_util.as_utc(dt_util.start_of_local_day(dt_util.as_local(ts)))
start_of_day_utc(ts, zone) ==
    (((ts + zone) \div HoursPerDay) * HoursPerDay) - zone

\* a scan that takes the first reading at or before the start of day even when
\* it has no total (mutant of scan_prior_total)
RECURSIVE scan_prior_total_no_skip(_, _, _, _)
scan_prior_total_no_skip(rs, i, sod, prior_total) ==
    IF i = 0 THEN prior_total
    ELSE IF rs[i].reading_date <= sod
         THEN pick_total_value(rs[i])
         ELSE scan_prior_total_no_skip(rs, i - 1, sod, prior_total)

\* a scan that compares with "<": a reading at the start of day exactly is not
\* a baseline (mutant of scan_prior_total)
RECURSIVE scan_prior_total_strict(_, _, _, _)
scan_prior_total_strict(rs, i, sod, prior_total) ==
    IF i = 0 THEN prior_total
    ELSE IF rs[i].reading_date < sod
         THEN LET p == pick_total_value(rs[i])
              IN  IF p # None THEN p ELSE scan_prior_total_strict(rs, i - 1, sod, p)
         ELSE scan_prior_total_strict(rs, i - 1, sod, prior_total)

\* the loop "for reading in reversed(readings)": i is the index still to visit,
\* prior_total the loop variable's value so far
RECURSIVE scan_prior_total(_, _, _, _)
scan_prior_total(rs, i, sod, prior_total) ==
    IF i = 0 THEN prior_total
    ELSE IF rs[i].reading_date <= sod
         THEN LET p == pick_total_value(rs[i])
              IN  IF p # None THEN p ELSE scan_prior_total(rs, i - 1, sod, p)
         ELSE scan_prior_total(rs, i - 1, sod, prior_total)

\* without the "consumption < 0" test (mutant of NegativeGuard)
NegativeGuard_absent(consumption) == Some(consumption)

NegativeGuard(consumption) ==
    IF consumption < 0 THEN None ELSE Some(consumption)

\* the variant that takes the first reading with a total as baseline when no
\* reading lies at or before the start of day (mutant of calculate_daily_consumption)
calculate_daily_consumption_same_day(rs, latest, zone) ==
    IF rs = <<>> \/ latest = None THEN None
    ELSE LET latest_total == pick_total_value(rs[Len(rs)])
         IN  IF latest_total = None THEN None
             ELSE LET start == start_of_day_utc(latest[1], zone)
                      prior_total == scan_prior_total(rs, Len(rs), start, None)
                      with_total == {i \in 1..Len(rs) : pick_total_value(rs[i]) # None}
                      first == CHOOSE i \in with_total : \A j \in with_total : i <= j
                      baseline == IF prior_total # None THEN prior_total
                                  ELSE pick_total_value(rs[first])
                  IN  NegativeGuard(latest_total[1] - baseline[1])

calculate_daily_consumption(rs, latest, zone) ==
    IF rs = <<>> \/ latest = None THEN None
    ELSE LET latest_total == pick_total_value(rs[Len(rs)])
         IN  IF latest_total = None THEN None
             ELSE LET start == start_of_day_utc(latest[1], zone)
                      prior_total == scan_prior_total(rs, Len(rs), start, None)
                  IN  IF prior_total = None THEN None
                      ELSE NegativeGuard(latest_total[1] - prior_total[1])

----------------------------------------------------------------------------
(* Python values and outcomes of calls *)

\* A value decoded from JSON is [t, v]: null, a number, a numeric string, an
\* ISO-8601 string with a UTC offset (v is the wall-clock hour, t names the
\* offset), another string, or a list (v is the sequence of its elements).
PyNone == [t |-> "null", v |-> 0]

JNum(n) == [t |-> "num", v |-> n]

JNumStr(n) == [t |-> "numstr", v |-> n]

JStr == [t |-> "str", v |-> 0]

JList(xs) == [t |-> "list", v |-> xs]

\* the string number n of the strings that are told apart (meter numbers, ids,
\* addresses, meter types)
JText(n) == [t |-> "str", v |-> n]

\* a date string "dd.mm.yyyy": v is the day since the epoch
JDate(day) == [t |-> "dmy", v |-> day]

JIsoUtc(h) == [t |-> "iso+00:00", v |-> h]

JIsoTallinn(h) == [t |-> "iso+02:00", v |-> h]

\* the strings that are told apart: meter types, meter numbers, an address, a
\* supply point id, an object id
Smart == JText(1)

Manual == JText(2)

MeterA == JText(10)

MeterB == JText(11)

AddressA == JText(20)

SupplyPointA == JText(30)

ObjectA == JText(40)

\* a call returns a value or raises an exception (with its __cause__)
Return(x) == [kind |-> "return", value |-> <<x>>, exc |-> "", cause |-> ""]

Raise(e, c) == [kind |-> "raise", value |-> <<>>, exc |-> e, cause |-> c]

NoOutcome == [kind |-> "none", value |-> <<>>, exc |-> "", cause |-> ""]

\* direct base class of each exception class
BaseClass ==
    [TallinnVesiAuthError |-> "TallinnVesiApiError",
     TallinnVesiApiError  |-> "Exception",
     ClientConnectorError |-> "ClientError",
     ContentTypeError     |-> "ClientError",
     ClientError          |-> "Exception",
     TimeoutError         |-> "Exception",
     JSONDecodeError      |-> "ValueError",
     ValueError           |-> "Exception",
     TypeError            |-> "Exception",
     ConfigEntryAuthFailed |-> "Exception",
     UpdateFailed         |-> "Exception",
     Exception            |-> "BaseException"]

RECURSIVE IsInstance(_, _)
IsInstance(e, cls) ==
    \/ e = cls
    \/ e \in DOMAIN BaseClass /\ IsInstance(BaseClass[e], cls)

----------------------------------------------------------------------------
(* api.py: TallinnVesiApiClient *)

\* session.request(...) and response.json(): a connection failure raises a
\* ClientError, the expiry of ClientTimeout(total=30) raises asyncio.TimeoutError,
\* json() raises ContentTypeError (a ClientError) on a non-JSON content type and
\* JSONDecodeError (a ValueError) on a malformed body
request_try(ev) ==
    IF ev.kind = "connect_error" THEN Raise("ClientConnectorError", "")
    ELSE IF ev.kind = "timeout" THEN Raise("TimeoutError", "")
    ELSE IF ev.status \in {401, 403} THEN Raise("TallinnVesiAuthError", "")
    ELSE IF ev.status >= 400 THEN Raise("TallinnVesiApiError", "")
    ELSE IF ev.decode = "content_type" THEN Raise("ContentTypeError", "")
    ELSE IF ev.decode = "malformed" THEN Raise("JSONDecodeError", "")
    ELSE Return(ev.payload)

\* a handler that catches every exception (mutant of request_except)
request_except_any(out) ==
    IF out.kind = "raise" /\ IsInstance(out.exc, "Exception")
    THEN Raise("TallinnVesiApiError", out.exc)
    ELSE out

\* "except ClientError as err: raise TallinnVesiApiError(...) from err"
request_except(out) ==
    IF out.kind = "raise" /\ IsInstance(out.exc, "ClientError")
    THEN Raise("TallinnVesiApiError", out.exc)
    ELSE out

request(ev) == request_except(request_try(ev))

\* a lookup that tries the first key only (mutant of multi_get)
multi_get_first_key(mapping, key1, key2) ==
    IF key1 \in DOMAIN mapping THEN mapping[key1] ELSE [t |-> "null", v |-> 0]

multi_get(mapping, key1, key2) ==
    IF key1 \in DOMAIN mapping THEN mapping[key1]
    ELSE IF key2 \in DOMAIN mapping THEN mapping[key2]
    ELSE PyNone

coerce_float(value) ==
    IF value.t = "null" THEN None
    ELSE IF value.t \in {"num", "numstr"} THEN Some(value.v)
    ELSE None

\* dt_util.parse_datetime: a datetime for an ISO-8601 string, None for any other
\* string, TypeError for an argument that is not a string
parse_datetime(value) ==
    IF value.t \in {"iso+00:00", "iso+02:00"}
    THEN Return(Some([hour |-> value.v, utcoffset |-> IF value.t = "iso+00:00" THEN 0 ELSE 2]))
    ELSE IF value.t \in {"str", "numstr", "dmy"} THEN Return(None)
    ELSE Raise("TypeError", "")

as_utc(dt) == dt.hour - dt.utcoffset

\* the loop over readings_payload: item i onwards, acc the readings appended so far
RECURSIVE parse_readings(_, _, _)
parse_readings(items, i, acc) ==
    IF i > Len(items) THEN Return(acc)
    ELSE LET item == items[i]
             reading_date == parse_datetime(multi_get(item, "ReadingDate", "readingDate"))
         IN  IF reading_date.kind = "raise" THEN reading_date
             ELSE IF reading_date.value[1] = None THEN parse_readings(items, i + 1, acc)
             ELSE parse_readings(items, i + 1, Append(acc,
                    [reading      |-> coerce_float(multi_get(item, "Reading", "reading")),
                     reading_end  |-> coerce_float(multi_get(item, "ReadingEnd", "readingEnd")),
                     reading_date |-> as_utc(reading_date.value[1][1])]))

\* "value or []"
OrEmpty(value) == IF value.t = "null" THEN <<>> ELSE value.v

async_get_readings(ev) ==
    LET response == request(ev)
    IN  IF response.kind = "raise" THEN response
        ELSE LET payload == response.value[1]
                 parsed == parse_readings(OrEmpty(multi_get(payload, "Readings", "readings")), 1, <<>>)
             IN  IF parsed.kind = "raise" THEN parsed
                 ELSE Return([readings        |-> parsed.value[1],
                              meter_number    |-> multi_get(payload, "MeterNr", "meterNr"),
                              supply_point_id |-> multi_get(payload, "SupplyPointId", "supplyPointId"),
                              errors          |-> OrEmpty(multi_get(payload, "Errors", "errors"))])

\* the loop over the supply points payload
supply_points_of(items) ==
    [i \in 1..Len(items) |->
        [meter_number    |-> multi_get(items[i], "MeterNr", "meterNr"),
         supply_point_id |-> multi_get(items[i], "SupplyPointId", "supplyPointId"),
         object_id       |-> multi_get(items[i], "ObjectId", "objectId"),
         address         |-> multi_get(items[i], "Address", "address")]]

async_get_supply_points(ev) ==
    LET response == request(ev)
    IN  IF response.kind = "raise" THEN response
        ELSE Return(supply_points_of(OrEmpty(response.value[1])))

\* _parse_overview_date: an ISO-8601 string gives its instant, a "dd.mm.yyyy"
\* string the local midnight of that day, anything else None
parse_overview_date(value, zone) ==
    IF value.t = "null" THEN None
    ELSE IF value.t \in {"str", "numstr", "dmy", "iso+00:00", "iso+02:00"}
    THEN LET parsed == parse_datetime(value).value[1]
         IN  IF parsed # None THEN Some(as_utc(parsed[1]))
             ELSE IF value.t = "dmy" THEN Some(value.v * HoursPerDay - zone)
             ELSE None
    ELSE None

\* the loop over the overview results
overview_of(results, zone) ==
    [i \in 1..Len(results) |->
        [address           |-> multi_get(results[i], "Address", "address"),
         meter_number      |-> multi_get(results[i], "MeterNr", "meterNr"),
         meter_type        |-> multi_get(results[i], "MeterType", "meterType"),
         last_reading      |-> coerce_float(multi_get(results[i], "LastReading", "lastReading")),
         last_reading_date |-> parse_overview_date(
                                  multi_get(results[i], "LastReadingDate", "lastReadingDate"),
                                  zone)]]

async_get_overview_readings(ev, zone) ==
    LET response == request(ev)
    IN  IF response.kind = "raise" THEN response
        ELSE Return(overview_of(
                 OrEmpty(multi_get(response.value[1], "Results", "results")), zone))

\* a timezone-aware datetime: the wall-clock time to the whole second (counted in
\* hours), the microsecond field and the UTC offset of its tzinfo
DateTime(hour, microsecond, utcoffset) ==
    [hour |-> hour, microsecond |-> microsecond, utcoffset |-> utcoffset]

\* dt_util.as_utc on an aware datetime: the same instant with tzinfo UTC
as_utc_datetime(dt) ==
    [hour |-> dt.hour - dt.utcoffset, microsecond |-> dt.microsecond, utcoffset |-> 0]

replace_microsecond(dt, microsecond) == [dt EXCEPT !.microsecond = microsecond]

OffsetText(utcoffset) ==
    IF utcoffset = 0 THEN "+00:00" ELSE IF utcoffset > 0 THEN "+02:00" ELSE "-05:00"

\* datetime.isoformat(): "YYYY-MM-DDTHH:MM:SS", then ".ffffff" unless the
\* microsecond field is 0, then the offset "+HH:MM"
isoformat(dt) ==
    [seconds  |-> dt.hour,
     fraction |-> IF dt.microsecond = 0 THEN None ELSE Some(dt.microsecond),
     suffix   |-> OffsetText(dt.utcoffset)]

\* str.replace(old, new), for an old text that can only occur as the suffix
str_replace(text, old, new) ==
    [text EXCEPT !.suffix = IF @ = old THEN new ELSE @]

\* without replace(microsecond=0) (mutant of format_datetime)
format_datetime_with_fraction(value) ==
    str_replace(isoformat(as_utc_datetime(value)), "+00:00", "Z")

format_datetime(value) ==
    str_replace(isoformat(replace_microsecond(as_utc_datetime(value), 0)), "+00:00", "Z")

\* the query parameters of async_get_readings; a key that is not sent is None
readings_params(meter_number, from) ==
    [meterNr |-> Some(meter_number),
     from    |-> IF from # None THEN Some(format_datetime(from[1])) ELSE None]

----------------------------------------------------------------------------
(* coordinator.py: TallinnVesiDataUpdateCoordinator._async_update_data *)

\* sorted(..., key=reading_date) is stable: x goes behind the readings that are
\* not later than it
insert_by_date(sorted, x) ==
    LET k == Cardinality({i \in 1..Len(sorted) : sorted[i].reading_date <= x.reading_date})
    IN  SubSeq(sorted, 1, k) \o <<x>> \o SubSeq(sorted, k + 1, Len(sorted))

\* without the sort (mutant of sorted_by_date)
sorted_by_date_absent(rs) == rs

RECURSIVE sorted_by_date(_)
sorted_by_date(rs) ==
    IF rs = <<>> THEN <<>>
    ELSE insert_by_date(sorted_by_date(SubSeq(rs, 1, Len(rs) - 1)), rs[Len(rs)])

\* a cycle that writes its fields into the snapshot already published and keeps
\* that snapshot's readings list (mutant of ConsumptionData)
ConsumptionData_in_place(result, zone) ==
    LET rs == sorted_by_date(result.readings)
        latest_total == IF rs # <<>> THEN pick_total_value(rs[Len(rs)]) ELSE None
        latest == IF rs # <<>> THEN Some(rs[Len(rs)].reading_date) ELSE None
    IN  [meter_number      |-> IF result.meter_number.t = "null" THEN [t |-> "str", v |-> 0]
                               ELSE result.meter_number,
         supply_point_id   |-> result.supply_point_id,
         latest_total      |-> latest_total,
         latest_timestamp  |-> latest,
         daily_consumption |-> calculate_daily_consumption(rs, latest, zone),
         readings          |-> IF data # None THEN data[1].readings ELSE rs]

\* the latest fields taken from the last entry of the list as the API returned it
\* (mutant of ConsumptionData)
ConsumptionData_unsorted_latest(result, zone) ==
    LET rs == sorted_by_date(result.readings)
        given == result.readings
        latest_total == IF given # <<>> THEN pick_total_value(given[Len(given)]) ELSE None
        latest == IF given # <<>> THEN Some(given[Len(given)].reading_date) ELSE None
    IN  [meter_number      |-> IF result.meter_number.t = "null" THEN [t |-> "str", v |-> 0]
                               ELSE result.meter_number,
         supply_point_id   |-> result.supply_point_id,
         latest_total      |-> latest_total,
         latest_timestamp  |-> latest,
         daily_consumption |-> calculate_daily_consumption(rs, latest, zone),
         readings          |-> rs]

\* self._meter_number, from the config entry
ConfiguredMeter == [t |-> "str", v |-> 0]

ConsumptionData(result, zone) ==
    LET rs == sorted_by_date(result.readings)
        latest_total == IF rs # <<>> THEN pick_total_value(rs[Len(rs)]) ELSE None
        latest == IF rs # <<>> THEN Some(rs[Len(rs)].reading_date) ELSE None
    IN  [meter_number      |-> IF result.meter_number.t = "null" THEN ConfiguredMeter
                               ELSE result.meter_number,
         supply_point_id   |-> result.supply_point_id,
         latest_total      |-> latest_total,
         latest_timestamp  |-> latest,
         daily_consumption |-> calculate_daily_consumption(rs, latest, zone),
         readings          |-> rs]

\* the generic clause first (mutant of except_clauses)
except_clauses_generic_first(fetched) ==
    IF IsInstance(fetched.exc, "TallinnVesiApiError") THEN Raise("UpdateFailed", fetched.exc)
    ELSE IF IsInstance(fetched.exc, "TallinnVesiAuthError")
    THEN Raise("ConfigEntryAuthFailed", fetched.exc)
    ELSE fetched

\* an API error answered with a snapshot of no readings (mutant of except_clauses)
except_clauses_swallow(fetched) ==
    IF IsInstance(fetched.exc, "TallinnVesiApiError")
    THEN Return([meter_number |-> ConfiguredMeter, supply_point_id |-> PyNone,
                 latest_total |-> None, latest_timestamp |-> None,
                 daily_consumption |-> None, readings |-> <<>>])
    ELSE fetched

\* "except TallinnVesiAuthError ... except TallinnVesiApiError ...": the first
\* clause the exception is an instance of; any other exception propagates
except_clauses(fetched) ==
    IF IsInstance(fetched.exc, "TallinnVesiAuthError")
    THEN Raise("ConfigEntryAuthFailed", fetched.exc)
    ELSE IF IsInstance(fetched.exc, "TallinnVesiApiError")
    THEN Raise("UpdateFailed", fetched.exc)
    ELSE fetched

\* config_flow.py: the steps TallinnVesiConfigFlow defines (its async_step_* methods)
FlowSteps == {"user", "select_meter"}

\* the host's FlowManager.async_init: a flow starts at the step named after its
\* source and is dropped with UnknownStep when the handler has no such step
flow_init(source) ==
    IF source \in FlowSteps THEN "in_progress" ELSE "unknown_step"

\* what the host does with a cycle that raised ConfigEntryAuthFailed:
\* entry.async_start_reauth, a flow of source "reauth"
start_reauth(out, flow) ==
    IF out.kind = "raise" /\ out.exc = "ConfigEntryAuthFailed" THEN flow_init("reauth")
    ELSE flow

\* "from_dt = dt_util.utcnow() - timedelta(days=14)", for a clock that shows
\* 20:00:00.000005 UTC of day 14
WindowStart == DateTime(20, 5, 0)

\* _async_update_data from the point where the awaited async_get_readings ended
async_update_data(fetched, zone) ==
    IF fetched.kind = "raise" THEN except_clauses(fetched)
    ELSE Return(ConsumptionData(fetched.value[1], zone))

\* sensor.py: what the two sensors show
TotalSensor_native_value ==
    IF data # None THEN data[1].latest_total ELSE None

DailySensor_native_value ==
    IF data # None THEN data[1].daily_consumption ELSE None

\* sensor.py: the attributes both sensors carry
extra_state_attributes ==
    IF data = None THEN [meter_number |-> None, supply_point_id |-> None, last_updated |-> None]
    ELSE [meter_number    |-> Some(data[1].meter_number),
          supply_point_id |-> Some(data[1].supply_point_id),
          last_updated    |-> data[1].latest_timestamp]

\* diagnostics.py: "data.readings[-50:]"
RecentReadings == 50

LastReadings(rs, n) ==
    IF Len(rs) <= n THEN rs ELSE SubSeq(rs, Len(rs) - n + 1, Len(rs))

\* diagnostics.py: the dictionary returned for a config entry
async_get_config_entry_diagnostics ==
    IF data = None
    THEN [meter_number |-> None, supply_point_id |-> None, latest_total |-> None,
          latest_timestamp |-> None, daily_consumption |-> None, recent_readings |-> <<>>]
    ELSE [meter_number      |-> Some(data[1].meter_number),
          supply_point_id   |-> Some(data[1].supply_point_id),
          latest_total      |-> data[1].latest_total,
          latest_timestamp  |-> data[1].latest_timestamp,
          daily_consumption |-> data[1].daily_consumption,
          recent_readings   |-> LastReadings(data[1].readings, RecentReadings)]

----------------------------------------------------------------------------
(* config_flow.py: TallinnVesiConfigFlow *)

\* truth value of a payload value that is null or a non-empty string
Truthy(value) == value.t # "null"

\* "Smart" with a capital letter, and str.lower()
SmartCapital == JText(3)

lower(text) == IF text = SmartCapital THEN Smart ELSE text

\* "(item.meter_type or "").lower() == "smart""
is_smart(item) == Truthy(item.meter_type) /\ lower(item.meter_type) = Smart

FlowResult(type, step_id, errors, content) ==
    [type |-> type, step_id |-> step_id, errors |-> errors, data |-> content]

\* the try statement around the overview fetch, with its else clause
overview_error(overview) ==
    IF overview.kind = "raise"
    THEN IF IsInstance(overview.exc, "TallinnVesiAuthError") THEN Some("invalid_auth")
         ELSE IF IsInstance(overview.exc, "TallinnVesiApiError") THEN Some("cannot_connect")
         ELSE None
    ELSE IF SelectSeq(overview.value[1], is_smart) = <<>> THEN Some("no_smart_meter")
    ELSE None

\* the try statement around the supply points fetch, with its else clause
supply_points_error(supply_points) ==
    IF supply_points.kind = "raise"
    THEN IF IsInstance(supply_points.exc, "TallinnVesiApiError") THEN Some("cannot_connect")
         ELSE None
    ELSE IF supply_points.value[1] = <<>> THEN Some("no_supply_points")
    ELSE None

\* an exception no except clause of the step catches
Escapes(out) == out.kind = "raise" /\ ~IsInstance(out.exc, "TallinnVesiApiError")

\* overview_map[meter_number]: the last smart entry with that meter number
overview_map_get(smart_overview, meter_number) ==
    smart_overview[CHOOSE i \in 1..Len(smart_overview) :
        /\ smart_overview[i].meter_number = meter_number
        /\ \A j \in 1..Len(smart_overview) :
              smart_overview[j].meter_number = meter_number => j <= i]

\* the list stored in self._supply_points
candidate_supply_points(smart_overview, supply_points) ==
    LET with_number(item) == Truthy(item.meter_number)
        keys == {smart_overview[i].meter_number :
                    i \in {j \in 1..Len(smart_overview) : with_number(smart_overview[j])}}
        in_map(sp) == sp.meter_number \in keys
        matched == SelectSeq(supply_points, in_map)
    IN  IF keys # {}
        THEN [i \in 1..Len(matched) |->
                [supply_point_id |-> matched[i].supply_point_id,
                 meter_number    |-> matched[i].meter_number,
                 address         |-> IF Truthy(matched[i].address) THEN matched[i].address
                                     ELSE overview_map_get(smart_overview,
                                                           matched[i].meter_number).address]]
        ELSE [i \in 1..Len(supply_points) |->
                [supply_point_id |-> supply_points[i].supply_point_id,
                 meter_number    |-> supply_points[i].meter_number,
                 address         |-> supply_points[i].address]]

\* _display_name: the address and the meter number that make up the text
display_name(selection) ==
    [address |-> selection.address, meter_number |-> selection.meter_number]

\* the options of the select_meter form
meter_options(supply_points) ==
    {display_name(supply_points[i]) : i \in 1..Len(supply_points)}

\* meter_map.get(selected_display): of equal display names the last one stays
meter_map_get(supply_points, selected_display) ==
    supply_points[CHOOSE i \in 1..Len(supply_points) :
        /\ display_name(supply_points[i]) = selected_display
        /\ \A j \in 1..Len(supply_points) :
              display_name(supply_points[j]) = selected_display => j <= i]

\* "supply_point_id or meter_number"
unique_id_of(selection) ==
    IF Truthy(selection.supply_point_id) THEN selection.supply_point_id
    ELSE selection.meter_number

\* _async_create_entry: configured is the set of unique ids of the entries
\* that exist
async_create_entry(selection, api_key, configured) ==
    IF Truthy(unique_id_of(selection)) /\ unique_id_of(selection) \in configured
    THEN FlowResult("abort", "", Some("already_configured"), None)
    ELSE FlowResult("create_entry", "", None,
            Some([api_key         |-> api_key,
                  meter_number    |-> selection.meter_number,
                  supply_point_id |-> IF Truthy(selection.supply_point_id)
                                      THEN Some(selection.supply_point_id) ELSE None,
                  address         |-> IF Truthy(selection.address)
                                      THEN Some(selection.address) ELSE None]))

\* what _async_create_entry leaves as the unique id of the flow, which the host
\* gives to the entry it creates
flow_unique_id(selection) ==
    IF Truthy(unique_id_of(selection)) THEN Some(unique_id_of(selection)) ELSE None

\* the host finishes a flow: of a create_entry result it makes a config entry
\* with the data of the result and the unique id of the flow
finish_flow(es, selection, result) ==
    IF result.type = "create_entry"
    THEN Append(es, [unique_id |-> flow_unique_id(selection), data |-> result.data[1]])
    ELSE es

\* sensor.py: unique_id of the sensor of a config entry with the suffix
\* SENSOR_KEY_TOTAL ("total") or SENSOR_KEY_DAILY ("daily"); the text
\* "<base>_<suffix>" is the pair of its parts
sensor_unique_id(entry_data, suffix) ==
    LET base == IF entry_data.supply_point_id # None THEN entry_data.supply_point_id[1]
                ELSE entry_data.meter_number
    IN  IF base.t = "null" THEN None ELSE Some([base |-> base, suffix |-> suffix])

\* a step that stores the key before it has validated it (mutant of stored_api_key)
stored_api_key_unvalidated(failed, api_key, stored) == Some(api_key)

\* "self._api_key = api_key" comes after "if errors: return"
stored_api_key(failed, api_key, stored) ==
    IF failed THEN stored ELSE Some(api_key)

\* async_step_user with a user input: what it leaves in the flow and what it
\* returns, given how the overview fetch ends and how the supply points fetch
\* ends if the step gets to it; an exception that escapes the step is the
\* result of type "raise"
step_user(api_key, overview, supply_points_fetch, configured) ==
    LET error1 == overview_error(overview)
        supply_points == IF Escapes(overview) \/ error1 # None THEN NoOutcome
                         ELSE supply_points_fetch
        errors == IF error1 # None THEN error1
                  ELSE IF supply_points.kind = "none" THEN None
                  ELSE supply_points_error(supply_points)
        unchanged(result) ==
            [overview_out |-> overview, supply_out |-> supply_points,
             api_key |-> stored_api_key(TRUE, api_key, flow_api_key),
             supply_points |-> flow_supply_points, step |-> "user", result |-> result]
    IN  IF Escapes(overview) THEN unchanged(FlowResult("raise", "user", None, None))
        ELSE IF Escapes(supply_points) THEN unchanged(FlowResult("raise", "user", None, None))
        ELSE IF errors # None THEN unchanged(FlowResult("form", "user", errors, None))
        ELSE LET smart_overview == SelectSeq(overview.value[1], is_smart)
                 candidates == candidate_supply_points(smart_overview, supply_points.value[1])
                 result == IF Len(candidates) = 1
                           THEN async_create_entry(candidates[1], api_key, configured)
                           ELSE FlowResult("form", "select_meter", None,
                                           Some(meter_options(candidates)))
             IN  [overview_out |-> overview, supply_out |-> supply_points,
                  api_key |-> stored_api_key(FALSE, api_key, flow_api_key),
                  supply_points |-> Some(candidates),
                  step |-> IF result.type = "form" THEN "select_meter" ELSE "finished",
                  result |-> result]

----------------------------------------------------------------------------
(* Harness of the API client: every transport event and readings payload     *)

\* the two spellings of each payload key
PascalCase ==
    [ReadingDate |-> "ReadingDate", Reading |-> "Reading", ReadingEnd |-> "ReadingEnd",
     Readings |-> "Readings", MeterNr |-> "MeterNr", Errors |-> "Errors",
     SupplyPointId |-> "SupplyPointId", ObjectId |-> "ObjectId", Address |-> "Address",
     Results |-> "Results", MeterType |-> "MeterType", LastReading |-> "LastReading",
     LastReadingDate |-> "LastReadingDate"]

camelCase ==
    [ReadingDate |-> "readingDate", Reading |-> "reading", ReadingEnd |-> "readingEnd",
     Readings |-> "readings", MeterNr |-> "meterNr", Errors |-> "errors",
     SupplyPointId |-> "supplyPointId", ObjectId |-> "objectId", Address |-> "address",
     Results |-> "results", MeterType |-> "meterType", LastReading |-> "lastReading",
     LastReadingDate |-> "lastReadingDate"]

\* the JSON object that has, under the spelling of casing, the fields whose
\* Optional value in fields is present
JsonObject(casing, fields) ==
    LET present == {f \in DOMAIN fields : fields[f] # None}
        key(f) == IF casing = "Pascal" THEN PascalCase[f] ELSE camelCase[f]
    IN  [k \in {key(f) : f \in present} |->
            (fields[CHOOSE f \in present : key(f) = k])[1]]

\* values a payload entry may carry as its date, reading and reading end
DateValues == {None, Some(JStr), Some(JIsoUtc(24)), Some(JIsoTallinn(34))}

ReadingValues == {None, Some(JNum(1)), Some(JNumStr(0)), Some(JStr)}

ReadingEndValues == {None, Some(JNum(1)), Some(JList(<<>>))}

ItemFields == [ReadingDate : DateValues, Reading : ReadingValues, ReadingEnd : ReadingEndValues]

ReadingsPayload(casing, items, meter, errors) ==
    JsonObject(casing,
        [Readings |-> Some(JList([i \in 1..Len(items) |-> JsonObject(casing, items[i])])),
         MeterNr  |-> meter,
         Errors   |-> errors])

EmptyPayload == ReadingsPayload("Pascal", <<>>, None, None)

Response(status, decode, payload) ==
    [kind |-> "response", status |-> status, decode |-> decode, payload |-> payload]

ConnectError == [kind |-> "connect_error", status |-> 0, decode |-> "ok", payload |-> EmptyPayload]

Timeout == [kind |-> "timeout", status |-> 0, decode |-> "ok", payload |-> EmptyPayload]

NoEvent == [kind |-> "none", status |-> 0, decode |-> "ok", payload |-> EmptyPayload]

DailyIdle ==
    /\ readings = <<>>
    /\ latest_timestamp = None
    /\ daily_consumption = None

ParamsIdle ==
    /\ from_datetime = None
    /\ params = None

ApiIdle ==
    /\ event = NoEvent
    /\ request_out = NoOutcome
    /\ api_out = NoOutcome
    /\ ParamsIdle

CoordIdle ==
    /\ fetching = 0
    /\ data = None
    /\ cycle_out = NoOutcome
    /\ reauth_flow = "none"

SetupIdle ==
    /\ hass_data = None
    /\ forwarded = FALSE
    /\ listeners = 0
    /\ setup_out = NoOutcome
    /\ unload_ok = None

FlowIdle ==
    /\ flow_step = "none"
    /\ flow_api_key = None
    /\ flow_supply_points = None
    /\ overview_out = NoOutcome
    /\ supply_out = NoOutcome
    /\ flow_result = [type |-> "none", step_id |-> "", errors |-> None, data |-> None]
    /\ entries = <<>>

\* a JSON object with keys of both spellings
MixedObject(pascal_fields, camel_fields) ==
    JsonObject("Pascal", pascal_fields) @@ JsonObject("camel", camel_fields)

\* entries of a supply points payload: each field under its PascalCase key, its
\* camelCase key, both (with different values) or neither
SupplyItems ==
    {MixedObject(pascal_fields, camel_fields) :
        pascal_fields \in [MeterNr : {None, Some(MeterA)}, SupplyPointId : {None, Some(SupplyPointA)},
                           ObjectId : {None}, Address : {None}],
        camel_fields \in [MeterNr : {None, Some(MeterB)}, SupplyPointId : {None},
                          ObjectId : {Some(ObjectA)}, Address : {None, Some(AddressA)}]}

\* events that carry no payload: transport failures, error statuses, bodies
\* that do not decode
FailureEvents ==
    {ConnectError, Timeout}
        \cup {Response(status, "ok", EmptyPayload) : status \in {st \in Statuses : st >= 400}}
        \cup {Response(200, decode, EmptyPayload) : decode \in {"content_type", "malformed"}}

\* ev is what the supply points request can be answered with: a failure, null
\* or a list of entries
SupplyPointsEvent(ev) ==
    \/ ev \in FailureEvents
    \/ ev = Response(200, "ok", PyNone)
    \/ \E n \in 0..MaxItems : \E items \in [1..n -> SupplyItems] :
           ev = Response(200, "ok", JList(items))

OverviewFields ==
    [Address : {None, Some(AddressA)}, MeterNr : {None, Some(MeterA)},
     MeterType : {Some(Smart), Some(Manual)}, LastReading : {Some(JNum(1))},
     LastReadingDate : {None, Some(JDate(1)), Some(JIsoTallinn(34))}]

OverviewPayload(casing, items) ==
    JsonObject(casing,
        [Results |-> Some(JList([i \in 1..Len(items) |-> JsonObject(casing, items[i])]))])

\* ev is what the overview request can be answered with
OverviewEvent(ev) ==
    \/ ev \in FailureEvents
    \/ \E casing \in {"Pascal", "camel"}, n \in 0..MaxItems :
           \E items \in [1..n -> OverviewFields] :
               ev = Response(200, "ok", OverviewPayload(casing, items))

\* window starts: none, or 15:00:00 with and without microseconds at an offset
\* of 0, +2 and -5 hours
FromValues ==
    {None} \cup {Some(DateTime(15, microsecond, utcoffset)) :
                    microsecond \in {0, 5}, utcoffset \in {0, 2, 0 - 5}}

InitApi ==
    /\ DailyIdle
    /\ \/ /\ pc = "call"
          /\ tz = 0
          /\ \/ event \in {ConnectError, Timeout}
             \/ \E status \in {st \in Statuses : st >= 400} :
                    event = Response(status, "ok", EmptyPayload)
             \/ \E status \in {st \in Statuses : st < 400},
                   decode \in {"content_type", "malformed"} :
                    event = Response(status, decode, EmptyPayload)
             \/ \E status \in {st \in Statuses : st < 400}, casing \in {"Pascal", "camel"},
                   n \in 0..MaxItems, meter \in {None, Some(JStr)},
                   errors \in {None, Some(JList(<<JStr>>))} :
                    \E items \in [1..n -> ItemFields] :
                        event = Response(status, "ok",
                                         ReadingsPayload(casing, items, meter, errors))
          /\ from_datetime \in
                (IF OrEmpty(multi_get(event.payload, "Readings", "readings")) # <<>>
                 THEN {Some(WindowStart)} ELSE FromValues)
       \/ /\ pc = "call_supply_points"
          /\ tz = 0
          /\ SupplyPointsEvent(event)
          /\ from_datetime = None
       \/ /\ pc = "call_overview"
          /\ tz \in TimeZones
          /\ OverviewEvent(event)
          /\ from_datetime = None
    /\ params = None
    /\ request_out = NoOutcome
    /\ api_out = NoOutcome
    /\ CoordIdle
    /\ SetupIdle
    /\ FlowIdle

\* one call of async_get_readings, with the _request it awaits
GetReadings ==
    /\ pc = "call"
    /\ params' = Some(readings_params(ConfiguredMeter, from_datetime))
    /\ request_out' = request(event)
    /\ api_out' = async_get_readings(event)
    /\ pc' = "done"
    /\ UNCHANGED <<tz, event, from_datetime, dailyVars, coordVars, setupVars, flowVars>>

\* one call of async_get_supply_points
GetSupplyPoints ==
    /\ pc = "call_supply_points"
    /\ request_out' = request(event)
    /\ api_out' = async_get_supply_points(event)
    /\ pc' = "done_supply_points"
    /\ UNCHANGED <<tz, event, from_datetime, params, dailyVars, coordVars, setupVars, flowVars>>

\* one call of async_get_overview_readings
GetOverviewReadings ==
    /\ pc = "call_overview"
    /\ request_out' = request(event)
    /\ api_out' = async_get_overview_readings(event, tz)
    /\ pc' = "done_overview"
    /\ UNCHANGED <<tz, event, from_datetime, params, dailyVars, coordVars, setupVars, flowVars>>

NextApi ==
    \/ GetReadings
    \/ GetSupplyPoints
    \/ GetOverviewReadings

SpecApi == InitApi /\ [][NextApi]_vars

----------------------------------------------------------------------------
(* Harness of the pure function: every sorted readings list, every latest    *)
(* timestamp the coordinator can pass and every time zone.                  *)

IsSorted(rs) ==
    \A i \in 1..(Len(rs) - 1) : rs[i].reading_date <= rs[i + 1].reading_date

InitDaily ==
    /\ tz \in TimeZones
    /\ \E n \in 0..MaxLen : readings \in [1..n -> SmartMeterReading]
    /\ IsSorted(readings)
    /\ latest_timestamp \in Optional(Times)
    /\ daily_consumption = None
    /\ ApiIdle
    /\ CoordIdle
    /\ SetupIdle
    /\ FlowIdle
    /\ pc = "call"

Calculate ==
    /\ pc = "call"
    /\ daily_consumption' = calculate_daily_consumption(readings, latest_timestamp, tz)
    /\ pc' = "done"
    /\ UNCHANGED <<tz, readings, latest_timestamp, apiVars, coordVars, setupVars, flowVars>>

NextDaily == Calculate

SpecDaily == InitDaily /\ [][NextDaily]_vars

----------------------------------------------------------------------------
(* The coordinator of one config entry over its lifetime.  The refresh requests *)
(* come from the host (first refresh, hourly timer, manual refresh); when they  *)
(* arrive is the host's business and is left open here, up to MaxInFlight       *)
(* refreshes at once.  A refresh publishes what _async_update_data returns      *)
(* (coordinator.data) and publishes nothing when it raises.                     *)

CycleItemFields ==
    [ReadingDate : {None, Some(JIsoUtc(20)), Some(JIsoTallinn(34))},
     Reading     : {Some(JNum(0))},
     ReadingEnd  : {None, Some(JNum(1))}]

CyclePayloads ==
    UNION {{ReadingsPayload("Pascal", items, None, None) : items \in [1..n -> CycleItemFields]}
              : n \in 0..MaxCycleItems}

CycleEvents ==
    {ConnectError, Timeout}
        \cup {Response(status, "ok", EmptyPayload) : status \in {st \in Statuses : st >= 400}}
        \cup {Response(200, decode, EmptyPayload) : decode \in {"content_type", "malformed"}}
        \cup {Response(200, "ok", payload) : payload \in CyclePayloads}

Init ==
    /\ tz \in TimeZones
    /\ DailyIdle
    /\ ApiIdle
    /\ CoordIdle
    /\ SetupIdle
    /\ FlowIdle
    /\ pc = "run"

\* a refresh starts: _async_update_data runs up to "await async_get_readings(...)"
StartRefresh ==
    /\ pc = "run"
    /\ fetching < MaxInFlight
    /\ fetching' = fetching + 1
    /\ UNCHANGED <<tz, dailyVars, apiVars, data, cycle_out, reauth_flow, pc, setupVars, flowVars>>

\* the awaited async_get_readings of one refresh ends
ReadingsFetched ==
    /\ pc = "run"
    /\ fetching > 0
    /\ \E ev \in CycleEvents :
          /\ event' = ev
          /\ request_out' = request(ev)
          /\ api_out' = async_get_readings(ev)
    /\ from_datetime' = Some(WindowStart)
    /\ params' = Some(readings_params(ConfiguredMeter, Some(WindowStart)))
    /\ pc' = "resume"
    /\ UNCHANGED <<tz, dailyVars, coordVars, setupVars, flowVars>>

\* the rest of _async_update_data runs without another await, and the refresh
\* publishes its return value
FinishRefresh ==
    /\ pc = "resume"
    /\ LET out == async_update_data(api_out, tz)
       IN  /\ cycle_out' = out
           /\ data' = IF out.kind = "return" THEN Some(out.value[1]) ELSE data
           /\ reauth_flow' = start_reauth(out, reauth_flow)
    /\ fetching' = fetching - 1
    /\ event' = NoEvent
    /\ request_out' = NoOutcome
    /\ from_datetime' = None
    /\ params' = None
    /\ pc' = "run"
    /\ UNCHANGED <<tz, dailyVars, api_out, setupVars, flowVars>>

Next ==
    \/ StartRefresh
    \/ ReadingsFetched
    \/ FinishRefresh

Spec == Init /\ [][Next]_vars

----------------------------------------------------------------------------
(* Harness of the second half of a cycle: the awaited async_get_readings has    *)
(* returned any result whatever, its readings in any order, and the rest of     *)
(* _async_update_data runs on it.                                               *)

FetchedResults(n) ==
    [readings : [1..n -> SmartMeterReading], meter_number : {PyNone, JStr},
     supply_point_id : {PyNone}, errors : {<<>>}]

InitSnapshot ==
    /\ tz \in TimeZones
    /\ DailyIdle
    /\ event = NoEvent
    /\ request_out = NoOutcome
    /\ \E n \in 0..MaxSnapLen : \E result \in FetchedResults(n) : api_out = Return(result)
    /\ from_datetime = Some(WindowStart)
    /\ params = Some(readings_params(ConfiguredMeter, Some(WindowStart)))
    /\ fetching = 1
    /\ data = None
    /\ cycle_out = NoOutcome
    /\ reauth_flow = "none"
    /\ SetupIdle
    /\ FlowIdle
    /\ pc = "resume"

NextSnapshot == FinishRefresh

SpecSnapshot == InitSnapshot /\ [][NextSnapshot]_vars

----------------------------------------------------------------------------
(* __init__.py: async_setup_entry of one config entry.  The host calls it when *)
(* the entry is loaded and again after a setup that raised.                     *)

\* the host's async_config_entry_first_refresh: returns when the refresh
\* succeeded, lets ConfigEntryAuthFailed through and raises ConfigEntryNotReady
\* for every other failure of the refresh
async_config_entry_first_refresh(out) ==
    IF out.kind = "return" THEN Return(PyNone)
    ELSE IF out.exc = "ConfigEntryAuthFailed" THEN out
    ELSE Raise("ConfigEntryNotReady", out.exc)

\* a setup that goes on whatever the first refresh did (mutant of
\* setup_entry_after_refresh)
setup_entry_refresh_ignored(first) ==
    [hass_data |-> Some("coordinator"), forwarded |-> TRUE,
     listeners |-> listeners + 1, out |-> Return(TRUE)]

\* async_setup_entry from the end of the awaited first refresh: an exception
\* leaves the function at once, otherwise the coordinator is registered, the
\* platforms are forwarded, the update listener is added and True is returned
setup_entry_after_refresh(first) ==
    IF first.kind = "raise"
    THEN [hass_data |-> hass_data, forwarded |-> forwarded,
          listeners |-> listeners, out |-> first]
    ELSE [hass_data |-> Some("coordinator"), forwarded |-> TRUE,
          listeners |-> listeners + 1, out |-> Return(TRUE)]

InitSetup ==
    /\ tz \in TimeZones
    /\ DailyIdle
    /\ ApiIdle
    /\ CoordIdle
    /\ SetupIdle
    /\ FlowIdle
    /\ pc = "setup"

\* async_setup_entry up to the await of the first refresh, which runs
\* _async_update_data of the new coordinator up to its await
SetupEntry ==
    /\ pc \in {"setup", "setup_failed"}
    /\ fetching' = 1
    /\ data' = None
    /\ cycle_out' = NoOutcome
    /\ pc' = "first_refresh"
    /\ UNCHANGED <<tz, dailyVars, apiVars, reauth_flow, setupVars, flowVars>>

\* the awaited async_get_readings of the first refresh ends
FirstReadingsFetched ==
    /\ pc = "first_refresh"
    /\ \E ev \in CycleEvents :
          /\ event' = ev
          /\ request_out' = request(ev)
          /\ api_out' = async_get_readings(ev)
    /\ from_datetime' = Some(WindowStart)
    /\ params' = Some(readings_params(ConfiguredMeter, Some(WindowStart)))
    /\ pc' = "first_resume"
    /\ UNCHANGED <<tz, dailyVars, coordVars, setupVars, flowVars>>

\* the first refresh ends and async_setup_entry runs to its end
SetupEntryResumes ==
    /\ pc = "first_resume"
    /\ LET out == async_update_data(api_out, tz)
           tail == setup_entry_after_refresh(async_config_entry_first_refresh(out))
       IN  /\ cycle_out' = out
           /\ data' = IF out.kind = "return" THEN Some(out.value[1]) ELSE data
           /\ reauth_flow' = start_reauth(out, reauth_flow)
           /\ hass_data' = tail.hass_data
           /\ forwarded' = tail.forwarded
           /\ listeners' = tail.listeners
           /\ setup_out' = tail.out
           /\ pc' = IF tail.out.kind = "return" THEN "loaded" ELSE "setup_failed"
    /\ fetching' = fetching - 1
    /\ event' = NoEvent
    /\ request_out' = NoOutcome
    /\ from_datetime' = None
    /\ params' = None
    /\ UNCHANGED <<tz, dailyVars, api_out, unload_ok, flowVars>>

NextSetup ==
    \/ SetupEntry
    \/ FirstReadingsFetched
    \/ SetupEntryResumes

SpecSetup == InitSetup /\ [][NextSetup]_vars

----------------------------------------------------------------------------
(* __init__.py: the life of one config entry after its setup.  The host unloads *)
(* a loaded entry through async_unload_entry and, when that returned True,      *)
(* calls what the entry registered with async_on_unload: the removers of the    *)
(* update listeners.  When the settings of a loaded entry change, the host      *)
(* calls the update listener, async_reload_entry; one such call is followed at  *)
(* a time.  `data` is the data of the coordinator built last.                   *)

\* async_unload_entry: unload_platforms is what the host's async_unload_platforms
\* returned, True when it unloaded the platforms of the entry
async_unload_entry(unload_platforms) ==
    [hass_data |-> IF unload_platforms THEN None ELSE hass_data,
     forwarded |-> IF unload_platforms THEN FALSE ELSE forwarded,
     out       |-> unload_platforms]

\* the host unloads the entry
UnloadEntry ==
    /\ pc = "loaded"
    /\ \E unload_platforms \in BOOLEAN :
          LET unloaded == async_unload_entry(unload_platforms)
          IN  /\ hass_data' = unloaded.hass_data
              /\ forwarded' = unloaded.forwarded
              /\ unload_ok' = Some(unloaded.out)
              /\ listeners' = IF unloaded.out THEN 0 ELSE listeners
              /\ pc' = IF unloaded.out THEN "setup" ELSE "failed_unload"
    /\ UNCHANGED <<tz, dailyVars, apiVars, coordVars, setup_out, flowVars>>

\* async_reload_entry, called as update listener: async_unload_entry, whose result
\* is dropped, then async_setup_entry up to the await of the first refresh
ReloadEntry ==
    /\ pc = "loaded"
    /\ listeners > 0
    /\ listeners < MaxListeners
    /\ \E unload_platforms \in BOOLEAN :
          LET unloaded == async_unload_entry(unload_platforms)
          IN  /\ hass_data' = unloaded.hass_data
              /\ forwarded' = unloaded.forwarded
              /\ unload_ok' = Some(unloaded.out)
    /\ fetching' = 1
    /\ data' = None
    /\ cycle_out' = NoOutcome
    /\ pc' = "reload_refresh"
    /\ UNCHANGED <<tz, dailyVars, apiVars, reauth_flow, listeners, setup_out, flowVars>>

\* the awaited async_get_readings of the reload's first refresh ends
ReloadReadingsFetched ==
    /\ pc = "reload_refresh"
    /\ \E ev \in CycleEvents :
          /\ event' = ev
          /\ request_out' = request(ev)
          /\ api_out' = async_get_readings(ev)
    /\ from_datetime' = Some(WindowStart)
    /\ params' = Some(readings_params(ConfiguredMeter, Some(WindowStart)))
    /\ pc' = "reload_resume"
    /\ UNCHANGED <<tz, dailyVars, coordVars, setupVars, flowVars>>

\* the first refresh ends and async_setup_entry, then async_reload_entry, run to
\* their end; an exception leaves both and the entry stays loaded for the host
ReloadEntryResumes ==
    /\ pc = "reload_resume"
    /\ LET out == async_update_data(api_out, tz)
           tail == setup_entry_after_refresh(async_config_entry_first_refresh(out))
       IN  /\ cycle_out' = out
           /\ data' = IF out.kind = "return" THEN Some(out.value[1]) ELSE data
           /\ reauth_flow' = start_reauth(out, reauth_flow)
           /\ hass_data' = tail.hass_data
           /\ forwarded' = tail.forwarded
           /\ listeners' = tail.listeners
           /\ setup_out' = tail.out
    /\ pc' = "loaded"
    /\ fetching' = fetching - 1
    /\ event' = NoEvent
    /\ request_out' = NoOutcome
    /\ from_datetime' = None
    /\ params' = None
    /\ UNCHANGED <<tz, dailyVars, api_out, unload_ok, flowVars>>

NextReload ==
    \/ SetupEntry
    \/ FirstReadingsFetched
    \/ SetupEntryResumes
    \/ UnloadEntry
    \/ ReloadEntry
    \/ ReloadReadingsFetched
    \/ ReloadEntryResumes

SpecReload == InitSetup /\ [][NextReload]_vars

----------------------------------------------------------------------------
(* One config flow, from the moment the host creates it.  The host shows the  *)
(* form a step returns and calls that step again with what the user entered;  *)
(* an input to the select_meter form is one of the options it offered.  The   *)
(* user enters a key again after a user step whose overview fetch failed.     *)

FlowOverviewFields ==
    [Address : {Some(AddressA)}, MeterNr : {None, Some(MeterA)},
     MeterType : {Some(Smart), Some(SmartCapital), Some(Manual)},
     LastReading : {Some(JNum(1))}, LastReadingDate : {None}]

FlowOverviewEvents ==
    FailureEvents
        \cup UNION {{Response(200, "ok", OverviewPayload("Pascal", items)) :
                          items \in [1..n -> FlowOverviewFields]} : n \in 0..MaxFlowItems}

FlowSupplyFields ==
    [MeterNr : {None, Some(MeterA), Some(MeterB)}, SupplyPointId : {None, Some(SupplyPointA)},
     ObjectId : {None}, Address : {None}]

FlowSupplyEvents ==
    FailureEvents
        \cup UNION {{Response(200, "ok",
                              JList([i \in 1..n |-> JsonObject("camel", items[i])])) :
                          items \in [1..n -> FlowSupplyFields]} : n \in 0..MaxFlowItems}

\* the API key the user enters, stripped
EnteredApiKey == JText(50)

\* the unique ids of the entries that exist when a flow tries to create one
ConfiguredIds == {{}, {SupplyPointA, MeterA}}

InitFlow ==
    /\ tz = 0
    /\ DailyIdle
    /\ ApiIdle
    /\ CoordIdle
    /\ SetupIdle
    /\ FlowIdle
    /\ pc = "flow"

\* the host starts the flow at the step named after its source; with the source
\* "user" that is async_step_user without user input, which shows the form
FlowInit ==
    /\ flow_step = "none"
    /\ \E source \in {"user", "reauth"} :
          IF flow_init(source) = "in_progress"
          THEN /\ flow_step' = "user"
               /\ flow_result' = FlowResult("form", "user", None, None)
          ELSE /\ flow_step' = "finished"
               /\ flow_result' = FlowResult("raise", source, None, None)
    /\ UNCHANGED <<tz, pc, dailyVars, apiVars, coordVars, setupVars,
                   flow_api_key, flow_supply_points, overview_out, supply_out, entries>>

\* how the two fetches of a user step can end
OverviewOutcomes(zone) ==
    {async_get_overview_readings(ev, zone) : ev \in FlowOverviewEvents}

SupplyPointsOutcomes == {async_get_supply_points(ev) : ev \in FlowSupplyEvents}

\* async_step_user with the key the user entered
StepUser ==
    /\ flow_step = "user"
    /\ overview_out.kind # "return"
    /\ \E overview \in OverviewOutcomes(tz), supply_points \in SupplyPointsOutcomes,
          configured \in ConfiguredIds :
          \E r \in {step_user(EnteredApiKey, overview, supply_points, configured)} :
              /\ overview_out' = r.overview_out
              /\ supply_out' = r.supply_out
              /\ flow_api_key' = r.api_key
              /\ flow_supply_points' = r.supply_points
              /\ flow_step' = r.step
              /\ flow_result' = r.result
    /\ UNCHANGED <<tz, pc, dailyVars, apiVars, coordVars, setupVars, entries>>

\* async_step_select_meter with the option the user chose
StepSelectMeter ==
    /\ flow_step = "select_meter"
    /\ \E selected_display \in meter_options(flow_supply_points[1]),
          configured \in ConfiguredIds :
          flow_result' = async_create_entry(
                             meter_map_get(flow_supply_points[1], selected_display),
                             flow_api_key[1], configured)
    /\ flow_step' = "finished"
    /\ UNCHANGED <<tz, pc, dailyVars, apiVars, coordVars, setupVars,
                   flow_api_key, flow_supply_points, overview_out, supply_out, entries>>

NextFlow ==
    \/ FlowInit
    \/ StepUser
    \/ StepSelectMeter

SpecFlow == InitFlow /\ [][NextFlow]_vars

----------------------------------------------------------------------------
(* Config flows one after the other.  The host keeps the entries the flows     *)
(* created; a flow that ended is discarded and another one may be started.     *)

\* the unique ids of the entries that exist
EntryUniqueIds ==
    {entries[i].unique_id[1] : i \in {j \in 1..Len(entries) : entries[j].unique_id # None}}

\* async_step_user with the key the user entered, and the host creating the
\* entry if the step ended the flow with one
StepUserCreates ==
    /\ flow_step = "user"
    /\ overview_out.kind # "return"
    /\ \E overview \in OverviewOutcomes(tz), supply_points \in SupplyPointsOutcomes :
          \E r \in {step_user(EnteredApiKey, overview, supply_points, EntryUniqueIds)} :
              /\ overview_out' = r.overview_out
              /\ supply_out' = r.supply_out
              /\ flow_api_key' = r.api_key
              /\ flow_supply_points' = r.supply_points
              /\ flow_step' = r.step
              /\ flow_result' = r.result
              /\ entries' = IF r.result.type = "create_entry"
                            THEN finish_flow(entries, r.supply_points[1][1], r.result)
                            ELSE entries
    /\ UNCHANGED <<tz, pc, dailyVars, apiVars, coordVars, setupVars>>

\* async_step_select_meter with the option the user chose, and the host creating
\* the entry
StepSelectMeterCreates ==
    /\ flow_step = "select_meter"
    /\ \E selected_display \in meter_options(flow_supply_points[1]) :
          LET selected == meter_map_get(flow_supply_points[1], selected_display)
              result == async_create_entry(selected, flow_api_key[1], EntryUniqueIds)
          IN  /\ flow_result' = result
              /\ entries' = finish_flow(entries, selected, result)
    /\ flow_step' = "finished"
    /\ UNCHANGED <<tz, pc, dailyVars, apiVars, coordVars, setupVars,
                   flow_api_key, flow_supply_points, overview_out, supply_out>>

\* the host discards the flow that ended; the next flow is a new object
FlowDiscarded ==
    /\ flow_step = "finished"
    /\ Len(entries) < MaxEntries
    /\ flow_step' = "none"
    /\ flow_api_key' = None
    /\ flow_supply_points' = None
    /\ overview_out' = NoOutcome
    /\ supply_out' = NoOutcome
    /\ flow_result' = [type |-> "none", step_id |-> "", errors |-> None, data |-> None]
    /\ UNCHANGED <<tz, pc, dailyVars, apiVars, coordVars, setupVars, entries>>

NextEntries ==
    \/ FlowInit
    \/ StepUserCreates
    \/ StepSelectMeterCreates
    \/ FlowDiscarded

SpecEntries == InitFlow /\ [][NextEntries]_vars

----------------------------------------------------------------------------
(* Claims about _calculate_daily_consumption *)

\* the call got a non-empty list and a latest timestamp, and the last reading has a total
HasLatestTotal ==
    /\ readings # <<>>
    /\ latest_timestamp # None
    /\ pick_total_value(readings[Len(readings)]) # None

LatestTotal == pick_total_value(readings[Len(readings)])[1]

StartOfDay == start_of_day_utc(latest_timestamp[1], tz)

\* positions of the readings at or before the local start of day
AtOrBeforeStart == {i \in 1..Len(readings) : readings[i].reading_date <= StartOfDay}

\* those of them that carry a total
BaselineCandidates == {i \in AtOrBeforeStart : pick_total_value(readings[i]) # None}

\* the most recent candidate
BaselineIndex == CHOOSE i \in BaselineCandidates : \A j \in BaselineCandidates : j <= i

BaselineTotal == pick_total_value(readings[BaselineIndex])[1]

\* C1: the daily delta is null or >= 0, and it is null whenever the latest total
\* is smaller than the chosen baseline total.
C1_DailyNeverNegative ==
    pc = "done" =>
        /\ daily_consumption = None \/ daily_consumption[1] >= 0
        /\ (HasLatestTotal /\ BaselineCandidates # {} /\ LatestTotal < BaselineTotal)
              => daily_consumption = None

LatestIsLastReading ==
    readings # <<>> /\ latest_timestamp = Some(readings[Len(readings)].reading_date)

C1_Witness ==
    /\ pc = "done"
    /\ HasLatestTotal
    /\ LatestIsLastReading
    /\ BaselineCandidates # {}
    /\ LatestTotal < BaselineTotal
    /\ daily_consumption = None

\* C2: the baseline is the total of the most recent reading at or before the local
\* start of day that has a total (readings there without a total are skipped), and
\* when it is not greater than the latest total the delta is latest minus baseline.
C2_BaselineIsMostRecentWithTotal ==
    (pc = "done" /\ HasLatestTotal /\ BaselineCandidates # {} /\ BaselineTotal <= LatestTotal)
        => daily_consumption = Some(LatestTotal - BaselineTotal)

\* a reading without a total at or before the start of day was skipped
C2_Witness ==
    /\ pc = "done"
    /\ HasLatestTotal
    /\ LatestIsLastReading
    /\ BaselineCandidates # {}
    /\ \E i \in AtOrBeforeStart : i > BaselineIndex
    /\ LatestTotal > BaselineTotal
    /\ daily_consumption = Some(LatestTotal - BaselineTotal)

C4_SameDayFallback ==
    (/\ pc = "done"
     /\ HasLatestTotal
     /\ LatestIsLastReading
     /\ readings[1].reading_date < readings[Len(readings)].reading_date
     /\ AtOrBeforeStart = {}
     /\ pick_total_value(readings[1]) # None
     /\ pick_total_value(readings[1])[1] <= LatestTotal)
        => daily_consumption = Some(LatestTotal - pick_total_value(readings[1])[1])

\* the latest reading was taken at the local start of its day exactly
LatestAtStartOfDay == LatestIsLastReading /\ latest_timestamp[1] = StartOfDay

\* C26: the comparison with the start of day is inclusive: when the latest reading
\* lies at the local start of day exactly and has a total, it is its own baseline
\* and the delta is 0, whatever the totals of the earlier readings.
C26_InclusiveBaseline ==
    (pc = "done" /\ HasLatestTotal /\ LatestAtStartOfDay) => daily_consumption = Some(0)

\* an earlier reading, taken before the start of day, has a smaller total
C26_Witness ==
    /\ pc = "done"
    /\ HasLatestTotal
    /\ LatestAtStartOfDay
    /\ \E i \in 1..(Len(readings) - 1) :
          /\ pick_total_value(readings[i]) # None
          /\ pick_total_value(readings[i])[1] < LatestTotal
          /\ readings[i].reading_date < StartOfDay
    /\ daily_consumption = Some(0)

----------------------------------------------------------------------------
(* Claims about the API client *)

Responded == pc = "done" /\ event.kind = "response"

C7_TransportFailureWrapped ==
    (pc = "done" /\ event.kind \in {"connect_error", "timeout"}) =>
        /\ request_out.kind = "raise"
        /\ request_out.exc = "TallinnVesiApiError"
        /\ request_out.cause = request_try(event).exc

PayloadItems == OrEmpty(multi_get(event.payload, "Readings", "readings"))

DateParses(item) ==
    multi_get(item, "ReadingDate", "readingDate").t \in {"iso+00:00", "iso+02:00"}

NumericOrNull(value) ==
    IF value.t \in {"num", "numstr"} THEN Some(value.v) ELSE None

\* C8: for every payload received, async_get_readings returns: entries whose date is
\* missing or does not parse are dropped without a trace in the error list, values
\* that are missing or not numeric are null, all other entries are kept in order.
C8_DataErrorsNeverFail ==
    (pc = "done" /\ request_out.kind = "return") =>
        /\ api_out.kind = "return"
        /\ LET kept == SelectSeq(PayloadItems, DateParses)
               got == api_out.value[1]
           IN  /\ Len(got.readings) = Len(kept)
               /\ \A i \in 1..Len(kept) :
                     /\ got.readings[i].reading =
                            NumericOrNull(multi_get(kept[i], "Reading", "reading"))
                     /\ got.readings[i].reading_end =
                            NumericOrNull(multi_get(kept[i], "ReadingEnd", "readingEnd"))
               /\ got.errors = OrEmpty(multi_get(event.payload, "Errors", "errors"))

----------------------------------------------------------------------------
(* Claims about the coordinator cycle *)

AuthError(out) == out.kind = "raise" /\ IsInstance(out.exc, "TallinnVesiAuthError")

OtherApiError(out) ==
    /\ out.kind = "raise"
    /\ IsInstance(out.exc, "TallinnVesiApiError")
    /\ ~IsInstance(out.exc, "TallinnVesiAuthError")

\* C5: a cycle whose readings fetch raised the authentication error ends with
\* ConfigEntryAuthFailed, never with UpdateFailed; one whose fetch raised any other
\* API error ends with UpdateFailed; neither returns a snapshot.
C5_AuthFatalOtherTransient ==
    (pc = "run" /\ cycle_out # NoOutcome) =>
        /\ AuthError(api_out) => cycle_out = Raise("ConfigEntryAuthFailed", api_out.exc)
        /\ OtherApiError(api_out) => cycle_out = Raise("UpdateFailed", api_out.exc)

C5_Witness ==
    /\ pc = "run"
    /\ api_out = Raise("TallinnVesiAuthError", "")
    /\ cycle_out = Raise("ConfigEntryAuthFailed", "TallinnVesiAuthError")

\* C10: a cycle whose fetch failed ends in a failure and leaves the published
\* snapshot as it was, and a cycle that succeeded publishes the snapshot it
\* produced: readers see the snapshot of the most recent successful cycle.
C10_FailureKeepsSnapshot ==
    [][pc = "resume" =>
          IF api_out.kind = "raise"
          THEN cycle_out'.kind = "raise" /\ data' = data
          ELSE cycle_out'.kind = "return" /\ data' = Some(cycle_out'.value[1])]_vars

\* after a failed cycle the total sensor still shows the earlier snapshot's value
C10_Witness ==
    /\ pc = "run"
    /\ cycle_out.kind = "raise"
    /\ cycle_out.exc \in {"UpdateFailed", "ConfigEntryAuthFailed"}
    /\ data # None
    /\ TotalSensor_native_value # None

\* what a reader of the coordinator sees at one instant, re-derived from the
\* readings list it sees
ReadersSeeOneFetch ==
    LET d == async_get_config_entry_diagnostics
        rs == d.recent_readings
        latest == IF rs # <<>> THEN Some(rs[Len(rs)].reading_date) ELSE None
    IN  data # None =>
            /\ TotalSensor_native_value = d.latest_total
            /\ DailySensor_native_value = d.daily_consumption
            /\ extra_state_attributes.last_updated = d.latest_timestamp
            /\ d.latest_timestamp = latest
            /\ d.latest_total = IF rs # <<>> THEN pick_total_value(rs[Len(rs)]) ELSE None
            /\ d.daily_consumption = calculate_daily_consumption(rs, latest, tz)

\* C11: at every instant, also while fetches are in flight, the latest total, latest
\* timestamp, daily delta and readings list that the sensors and the diagnostics show
\* derive from one and the same fetch; the published snapshot changes only when a
\* cycle ends successfully, and then to the complete snapshot of that cycle.
C11_AtomicPublication ==
    /\ []ReadersSeeOneFetch
    /\ [][data' # data =>
             /\ pc = "resume"
             /\ api_out.kind = "return"
             /\ data' = Some(ConsumptionData(api_out.value[1], tz))]_vars

\* readers still see the previous snapshot whole while a refresh that fetched
\* other readings is about to publish
C11_Witness ==
    /\ pc = "resume"
    /\ fetching > 0
    /\ data # None
    /\ data[1].readings # <<>>
    /\ api_out.kind = "return"
    /\ ConsumptionData(api_out.value[1], tz) # data[1]
    /\ ReadersSeeOneFetch

----------------------------------------------------------------------------
(* Claims about the snapshot a cycle derives from a fetch result *)

Published == pc = "run" /\ cycle_out.kind = "return" /\ data = Some(cycle_out.value[1])

Fetched == api_out.value[1].readings

Occurrences(rs, x) == Cardinality({i \in 1..Len(rs) : rs[i] = x})

IsPermutation(a, b) ==
    /\ Len(a) = Len(b)
    /\ \A i \in 1..Len(a) : Occurrences(a, a[i]) = Occurrences(b, a[i])

\* C12: whatever order the API returned the readings in, the readings list of the
\* published snapshot holds the same readings sorted ascending by timestamp, and
\* the daily delta of the snapshot is the one derived from that sorted list.
C12_SortedBeforeDerivation ==
    Published =>
        /\ IsSorted(data[1].readings)
        /\ IsPermutation(data[1].readings, Fetched)
        /\ data[1].daily_consumption =
               calculate_daily_consumption(data[1].readings, data[1].latest_timestamp, tz)

\* the API returned the newer reading first, and the delta was derived all the same
C12_Witness ==
    /\ Published
    /\ Len(Fetched) = 2
    /\ Fetched[1].reading_date > Fetched[2].reading_date
    /\ data[1].readings = <<Fetched[2], Fetched[1]>>
    /\ data[1].daily_consumption # None

\* positions, in the list as fetched, of the readings with the greatest timestamp
MostRecent ==
    {i \in 1..Len(Fetched) : \A j \in 1..Len(Fetched) :
        Fetched[j].reading_date <= Fetched[i].reading_date}

\* of several readings with the same greatest timestamp the one fetched last
MostRecentReading ==
    Fetched[CHOOSE i \in MostRecent : \A j \in MostRecent : j <= i]

\* C19: latest_timestamp is the greatest timestamp among the fetched readings and
\* latest_total the total of that most recent reading (its end value if present,
\* else its plain value); both are null when there are no readings; when the most
\* recent reading carries neither value, latest_total and the daily delta are null
\* whatever totals older readings carry.
C19_LatestFields ==
    Published =>
        IF Fetched = <<>>
        THEN data[1].latest_timestamp = None /\ data[1].latest_total = None
        ELSE /\ data[1].latest_timestamp = Some(MostRecentReading.reading_date)
             /\ data[1].latest_total =
                    (IF MostRecentReading.reading_end # None
                     THEN MostRecentReading.reading_end ELSE MostRecentReading.reading)
             /\ (MostRecentReading.reading_end = None /\ MostRecentReading.reading = None)
                    => (data[1].latest_total = None /\ data[1].daily_consumption = None)

\* the most recent reading, fetched first, carries no value while the older one does
C19_Witness ==
    /\ Published
    /\ Len(Fetched) = 2
    /\ Fetched[1].reading_date > Fetched[2].reading_date
    /\ Fetched[1].reading = None /\ Fetched[1].reading_end = None
    /\ Fetched[2].reading_end # None
    /\ data[1].latest_timestamp = Some(Fetched[1].reading_date)
    /\ data[1].latest_total = None
    /\ data[1].daily_consumption = None

\* C13: for each of the four combinations of absent and present reading and
\* reading_end, _pick_total_value gives reading_end when it is present (zero
\* included), otherwise reading when it is present, otherwise null.
C13_PickTotalValue ==
    pc = "done" =>
        \A i \in 1..Len(readings) :
            LET r == readings[i]
            IN  /\ r.reading_end # None => pick_total_value(r) = r.reading_end
                /\ (r.reading_end = None /\ r.reading # None) => pick_total_value(r) = r.reading
                /\ (r.reading_end = None /\ r.reading = None) => pick_total_value(r) = None

\* a call whose readings show an end value of zero beside a different plain value,
\* a plain value alone and no value at all
C13_Witness ==
    /\ pc = "done"
    /\ \E i \in 1..Len(readings) :
          /\ readings[i].reading_end = Some(0) /\ readings[i].reading = Some(1)
          /\ pick_total_value(readings[i]) = Some(0)
    /\ \E i \in 1..Len(readings) :
          /\ readings[i].reading_end = None /\ readings[i].reading # None
          /\ pick_total_value(readings[i]) = readings[i].reading
    /\ \E i \in 1..Len(readings) :
          /\ readings[i].reading_end = None /\ readings[i].reading = None
          /\ pick_total_value(readings[i]) = None

----------------------------------------------------------------------------
(* Claims about the setup of a config entry *)

\* C14: the coordinator is registered in hass.data and the platforms are forwarded
\* only after the first refresh has succeeded and published its snapshot; when the
\* first refresh fails neither happens and async_setup_entry ends in an exception.
C14_FirstRefreshBeforeSetupCompletes ==
    /\ pc \in {"setup", "first_refresh", "first_resume", "setup_failed"}
          => (hass_data = None /\ ~forwarded)
    /\ pc = "loaded"
          => /\ cycle_out.kind = "return"
             /\ data = Some(cycle_out.value[1])
             /\ hass_data # None /\ forwarded
             /\ setup_out = Return(TRUE)
    /\ pc = "setup_failed"
          => (cycle_out.kind = "raise" /\ setup_out.kind = "raise")

\* the first refresh failed on a server error
C14_Witness ==
    /\ pc = "setup_failed"
    /\ cycle_out.kind = "raise" /\ cycle_out.exc = "UpdateFailed"
    /\ setup_out.kind = "raise" /\ setup_out.exc = "ConfigEntryNotReady"
    /\ hass_data = None
    /\ ~forwarded

\* C16: after a cycle that ended in an authentication failure the host has a
\* re-authentication flow in progress for the entry.
C16_AuthFailureStartsReauth ==
    (pc = "run" /\ cycle_out.kind = "raise" /\ cycle_out.exc = "ConfigEntryAuthFailed")
        => reauth_flow = "in_progress"

----------------------------------------------------------------------------
(* Claims about payload keys and query parameters *)

\* the other spelling of a payload key
OtherSpelling(key) ==
    IF \E f \in DOMAIN PascalCase : PascalCase[f] = key
    THEN camelCase[CHOOSE f \in DOMAIN PascalCase : PascalCase[f] = key]
    ELSE PascalCase[CHOOSE f \in DOMAIN camelCase : camelCase[f] = key]

SwapObject(obj) ==
    [k \in {OtherSpelling(j) : j \in DOMAIN obj} |-> obj[OtherSpelling(k)]]

SwapList(value) ==
    IF value.t = "list" THEN JList([i \in 1..Len(value.v) |-> SwapObject(value.v[i])])
    ELSE value

\* the payload with every key, also those of the listed entries, in the other spelling
SwapPayload(payload) ==
    LET top == SwapObject(payload)
    IN  [k \in DOMAIN top |->
            IF k \in {"Readings", "readings", "Results", "results"}
            THEN SwapList(top[k]) ELSE top[k]]

SwappedEvent(payload) == [event EXCEPT !.payload = payload]

SingleSpelling(obj) ==
    \/ \A k \in DOMAIN obj : \E f \in DOMAIN PascalCase : PascalCase[f] = k
    \/ \A k \in DOMAIN obj : \E f \in DOMAIN camelCase : camelCase[f] = k

\* the value under the PascalCase key of field f if that key is present, else the
\* one under its camelCase key, else null
FirstPresent(obj, f) ==
    IF PascalCase[f] \in DOMAIN obj THEN obj[PascalCase[f]]
    ELSE IF camelCase[f] \in DOMAIN obj THEN obj[camelCase[f]]
    ELSE PyNone

\* C17: for the readings, overview and supply points operations a payload parses to
\* the same result as the payload with the same values under the keys of the other
\* spelling, and every field is the value of the first candidate key present
\* (PascalCase first), null when neither is present.
C17_CaseTolerantKeys ==
    /\ (pc = "done" /\ request_out.kind = "return")
          => /\ api_out = async_get_readings(SwappedEvent(SwapPayload(event.payload)))
             /\ api_out.kind = "return"
                   => api_out.value[1].meter_number = FirstPresent(event.payload, "MeterNr")
    /\ (pc = "done_overview" /\ request_out.kind = "return")
          => /\ api_out = async_get_overview_readings(
                              SwappedEvent(SwapPayload(event.payload)), tz)
             /\ LET results == OrEmpty(FirstPresent(event.payload, "Results"))
                    got == api_out.value[1]
                IN  /\ Len(got) = Len(results)
                    /\ \A i \in 1..Len(results) :
                          /\ got[i].address = FirstPresent(results[i], "Address")
                          /\ got[i].meter_number = FirstPresent(results[i], "MeterNr")
                          /\ got[i].meter_type = FirstPresent(results[i], "MeterType")
    /\ (pc = "done_supply_points" /\ request_out.kind = "return")
          => LET items == OrEmpty(event.payload)
                 got == api_out.value[1]
             IN  /\ Len(got) = Len(items)
                 /\ \A i \in 1..Len(items) :
                       /\ got[i].meter_number = FirstPresent(items[i], "MeterNr")
                       /\ got[i].supply_point_id = FirstPresent(items[i], "SupplyPointId")
                       /\ got[i].object_id = FirstPresent(items[i], "ObjectId")
                       /\ got[i].address = FirstPresent(items[i], "Address")
                 /\ (\A i \in 1..Len(items) : SingleSpelling(items[i]))
                       => api_out = async_get_supply_points(
                                        SwappedEvent(SwapList(event.payload)))

\* an overview payload with lowercase keys, one smart meter with number and date
C17_Witness ==
    /\ pc = "done_overview"
    /\ "results" \in DOMAIN event.payload
    /\ api_out.kind = "return"
    /\ Len(api_out.value[1]) = 1
    /\ api_out.value[1][1].meter_type = Smart
    /\ api_out.value[1][1].meter_number = MeterA
    /\ api_out.value[1][1].last_reading_date # None

\* C18: for a timezone-aware window start the "from" parameter is the same instant
\* in UTC to the whole second, with the designator Z and neither a fraction nor a
\* numeric offset; without a window start no "from" parameter is sent.
C18_FormatDatetime ==
    pc = "done" =>
        IF from_datetime = None THEN params[1].from = None
        ELSE params[1].from =
                Some([seconds  |-> from_datetime[1].hour - from_datetime[1].utcoffset,
                      fraction |-> None,
                      suffix   |-> "Z"])

\* 15:00:00.000005+02:00 is sent as 13:00:00Z
C18_Witness ==
    /\ pc = "done"
    /\ from_datetime = Some(DateTime(15, 5, 2))
    /\ params[1].from = Some([seconds |-> 13, fraction |-> None, suffix |-> "Z"])

----------------------------------------------------------------------------
(* Claims about the config flow *)

ApiErrorRaised(out) == out.kind = "raise" /\ IsInstance(out.exc, "TallinnVesiApiError")

SmartMeters(out) == SelectSeq(out.value[1], is_smart)

\* the error outcome of the user step whose two fetches ended as recorded, if any
UserStepError ==
    IF ApiErrorRaised(overview_out)
    THEN IF IsInstance(overview_out.exc, "TallinnVesiAuthError") THEN Some("invalid_auth")
         ELSE Some("cannot_connect")
    ELSE IF overview_out.kind = "return" /\ SmartMeters(overview_out) = <<>>
    THEN Some("no_smart_meter")
    ELSE IF ApiErrorRaised(supply_out) THEN Some("cannot_connect")
    ELSE IF supply_out.kind = "return" /\ supply_out.value[1] = <<>>
    THEN Some("no_supply_points")
    ELSE None

\* C20: an entry is created only by a flow in whose user step the overview fetch
\* returned at least one smart meter and the supply points fetch at least one supply
\* point; a user step that ends in invalid_auth, cannot_connect, no_smart_meter or
\* no_supply_points shows the user form again with that error, creates no entry and
\* leaves the stored API key and supply point list as they were.
C20_EntryOnlyAfterValidation ==
    /\ [](flow_result.type = "create_entry" =>
             /\ overview_out.kind = "return" /\ SmartMeters(overview_out) # <<>>
             /\ supply_out.kind = "return" /\ supply_out.value[1] # <<>>
             /\ flow_api_key # None)
    /\ []((flow_result.type = "form" /\ flow_result.errors # None) =>
             flow_result.errors = UserStepError)
    /\ [][(flow_step = "user" /\ UserStepError' # None) =>
             /\ flow_result' = FlowResult("form", "user", UserStepError', None)
             /\ flow_step' = "user"
             /\ flow_api_key' = flow_api_key
             /\ flow_supply_points' = flow_supply_points]_vars

\* the overview listed a smart meter but there is no supply point
C20_Witness ==
    /\ flow_step = "user"
    /\ overview_out.kind = "return"
    /\ SmartMeters(overview_out) # <<>>
    /\ supply_out.kind = "return"
    /\ flow_result = FlowResult("form", "user", Some("no_supply_points"), None)
    /\ flow_api_key = None
    /\ flow_supply_points = None

\* the select_meter form is shown
SelectMeterShown == flow_result.type = "form" /\ flow_result.step_id = "select_meter"

\* C21: a user step that passed validation either ends the flow in
\* _async_create_entry at once or shows a select_meter form that offers at least one
\* option, and every option the user can choose there leads to _async_create_entry;
\* the select_meter form is never shown with an empty option list.
C21_SelectMeterHasOptions ==
    /\ [](SelectMeterShown => flow_result.data # None /\ flow_result.data[1] # {})
    /\ [][(flow_step = "select_meter" /\ flow_step' # flow_step) =>
             flow_result'.type \in {"create_entry", "abort"}]_vars

\* C22: every entry the config flow creates carries a meter number that is not null.
C22_EntryHasMeterNumber ==
    flow_result.type = "create_entry" => flow_result.data[1].meter_number.t # "null"

\* C23: a user step in which the overview fetch or the supply points fetch raised
\* the authentication error shows the user form with invalid_auth, never with
\* cannot_connect.
C23_AuthErrorIsInvalidAuth ==
    (AuthError(overview_out) \/ AuthError(supply_out)) =>
        flow_result = FlowResult("form", "user", Some("invalid_auth"), None)

----------------------------------------------------------------------------
(* Claims about unloading and reloading an entry *)

\* async_setup_entry completes in this step: it registers its coordinator and
\* forwards the platforms
SetupCompletes ==
    /\ pc \in {"first_resume", "reload_resume"}
    /\ async_config_entry_first_refresh(async_update_data(api_out, tz)).kind = "return"

\* C24: async_reload_entry sets the entry up again only after its unload succeeded: a
\* setup never registers a coordinator and forwards the platforms while the platforms
\* of the entry are still loaded after an unload that reported failure.
C24_ReloadSetsUpAfterUnload ==
    /\ [](pc \in {"reload_refresh", "reload_resume"} => unload_ok = Some(TRUE))
    /\ [][SetupCompletes => ~forwarded]_vars

\* C25: at most one update listener of the integration is registered on the entry.
C25_AtMostOneListener == listeners <= 1

----------------------------------------------------------------------------
(* Claims about the entries the config flows create *)

\* "supply point id or, when that is absent, the meter number" of an entry
EntryId(entry) ==
    IF entry.data.supply_point_id # None THEN entry.data.supply_point_id[1]
    ELSE entry.data.meter_number

\* no two entries have the same unique id
OneEntryPerUniqueId ==
    \A i, j \in 1..Len(entries) :
        (i # j /\ entries[i].unique_id # None) => entries[i].unique_id # entries[j].unique_id

\* a flow step that selects a configured id aborts and creates no entry
ConfiguredIdAborts ==
    (/\ flow_step \in {"user", "select_meter"}
     /\ flow_step' = "finished"
     /\ flow_result'.type \in {"create_entry", "abort"}
     /\ \E i \in 1..Len(flow_supply_points'[1]) :
           /\ flow_unique_id(flow_supply_points'[1][i]) # None
           /\ flow_unique_id(flow_supply_points'[1][i])[1] \in EntryUniqueIds
           /\ flow_step = "select_meter" \/ Len(flow_supply_points'[1]) = 1
           /\ \A k \in 1..Len(flow_supply_points'[1]) :
                 flow_unique_id(flow_supply_points'[1][k]) = flow_unique_id(flow_supply_points'[1][i]))
        => (flow_result'.type = "abort" /\ entries' = entries)

\* C27: every entry has a unique id, its supply point id or else its meter number, and
\* no two entries have the same one: a flow that selects a configured id aborts and
\* creates no entry; the two sensors of an entry have distinct unique ids, built from
\* the id of the entry.
C27_OneEntryPerUniqueId ==
    /\ [](\A i \in 1..Len(entries) :
             /\ EntryId(entries[i]).t # "null"
             /\ entries[i].unique_id = Some(EntryId(entries[i]))
             /\ sensor_unique_id(entries[i].data, "total")
                    = Some([base |-> EntryId(entries[i]), suffix |-> "total"])
             /\ sensor_unique_id(entries[i].data, "daily")
                    = Some([base |-> EntryId(entries[i]), suffix |-> "daily"])
             /\ sensor_unique_id(entries[i].data, "total")
                    # sensor_unique_id(entries[i].data, "daily"))
    /\ []OneEntryPerUniqueId
    /\ [][ConfiguredIdAborts]_vars

====
